---- MODULE Spec2Model ----
(***************************************************************************)
(* Causal graph analytics of phantom-metal-taste: the ArangoDB collections *)
(* the services read and write, and the AQL queries of AnalyticsService    *)
(* and InitiativeService evaluated over them, and the writes of            *)
(* InitiativeService to the store and to the Virtuoso mirror.              *)
(*                                                                         *)
(* Numbers are exact rationals [n, d] with d > 0; AQL null is the record   *)
(* with d = 0.  Edges are records [coll, _from, _to, strength]; a vertex   *)
(* identifier "collection/key" is the record [coll, key].                  *)
(***************************************************************************)
EXTENDS Integers, Sequences, FiniteSets, TLC

VARIABLES initiatives, outcomes, metrics, employees, departments,
          causes, measures, influences, participates_in, belongs_to,
          result, traversal, virtuoso, call

store == <<initiatives, outcomes, metrics, employees, departments,
           causes, measures, influences, participates_in, belongs_to>>
vars == <<initiatives, outcomes, metrics, employees, departments,
          causes, measures, influences, participates_in, belongs_to,
          result, traversal, virtuoso, call>>

-----------------------------------------------------------------------------
(* Bounds of the model *)

MaxCauses == 3
MaxTraceCauses == 3
MaxDepth == 3
MaxGraphEdges == 2
MaxMetrics == 2
MaxTheaterEdges == 3
MaxDetectEdges == 2
MaxEmployees == 2
MaxInitiatives == 2
MaxCreated == 2
MaxLinks == 2
MaxConsequenceCauses == 4
MaxConformingEdges == 4

-----------------------------------------------------------------------------
(* AQL values: numbers and null *)

Null == [n |-> 0, d |-> 0]

IsNull(x) == x.d = 0

AbsInt(i) == IF i < 0 THEN -i ELSE i

RECURSIVE GCD(_, _)
GCD(a, b) == IF b = 0 THEN a ELSE GCD(b, a % b)

Num(n, d) ==
    LET s == IF d < 0 THEN -1 ELSE 1
        g == GCD(AbsInt(n), AbsInt(d))
    IN  [n |-> (s * n) \div g, d |-> (s * d) \div g]

Int2Num(i) == [n |-> i, d |-> 1]

\* arithmetic operands: null is cast to 0
ToNumber(x) == IF IsNull(x) THEN Int2Num(0) ELSE x

AqlAdd(a, b) ==
    LET x == ToNumber(a)
        y == ToNumber(b)
    IN  Num(x.n * y.d + y.n * x.d, x.d * y.d)

AqlSub(a, b) ==
    LET x == ToNumber(a)
        y == ToNumber(b)
    IN  Num(x.n * y.d - y.n * x.d, x.d * y.d)

AqlMul(a, b) ==
    LET x == ToNumber(a)
        y == ToNumber(b)
    IN  Num(x.n * y.n, x.d * y.d)

\* division by zero yields null
AqlDiv(a, b) ==
    LET x == ToNumber(a)
        y == ToNumber(b)
    IN  IF y.n = 0 THEN Null ELSE Num(x.n * y.d, x.d * y.n)

AqlAbs(a) == IF IsNull(a) THEN Null ELSE [n |-> AbsInt(a.n), d |-> a.d]

\* comparison: null sorts before every number
AqlLess(a, b) ==
    IF IsNull(b) THEN FALSE
    ELSE IF IsNull(a) THEN TRUE
    ELSE a.n * b.d < b.n * a.d

AqlGreater(a, b) == AqlLess(b, a)

\* truthiness: null and 0 are false
AqlTruthy(x) == ~IsNull(x) /\ x.n # 0

AqlOr(a, b) == IF AqlTruthy(a) THEN a ELSE b

RECURSIVE AqlSum(_)
AqlSum(s) ==
    IF s = <<>> THEN Int2Num(0)
    ELSE AqlAdd(Head(s), AqlSum(Tail(s)))

IsNumber(x) == ~IsNull(x)

\* AVG ignores null members and is null when no number is left
AqlAvg(s) ==
    LET nums == SelectSeq(s, IsNumber)
    IN  IF nums = <<>> THEN Null
        ELSE AqlDiv(AqlSum(nums), Int2Num(Len(nums)))

\* MIN ignores null members
AqlMin2(a, b) ==
    IF IsNull(a) THEN b
    ELSE IF IsNull(b) THEN a
    ELSE IF AqlLess(b, a) THEN b ELSE a

RECURSIVE AqlProduct(_)
AqlProduct(s) ==
    IF s = <<>> THEN Int2Num(1)
    ELSE AqlMul(Head(s), AqlProduct(Tail(s)))

\* the members of a finite set as an array
RECURSIVE SetToSeq(_)
SetToSeq(S) ==
    IF S = {} THEN <<>>
    ELSE LET x == CHOOSE y \in S : TRUE
         IN  <<x>> \o SetToSeq(S \ {x})

-----------------------------------------------------------------------------
(* Documents and identifiers *)

Id(c, k) == [coll |-> c, key |-> k]

Collection(c) ==
    CASE c = "initiatives" -> initiatives
      [] c = "outcomes" -> outcomes
      [] c = "metrics" -> metrics
      [] c = "employees" -> employees
      [] c = "departments" -> departments
      [] OTHER -> <<>>

\* DOCUMENT(id) is null for an identifier no document has
Exists(id) == id.key \in DOMAIN Collection(id.coll)

\* v.type of a traversed vertex; "null" when the vertex or the field is missing
TypeOf(id) ==
    IF Exists(id) /\ id.coll \in {"outcomes", "metrics"}
    THEN Collection(id.coll)[id.key].type
    ELSE "null"

Edge(c, f, t, s) == [coll |-> c, _from |-> f, _to |-> t, strength |-> s]

-----------------------------------------------------------------------------
(* AQL graph traversal: FOR v, e, p IN lo..hi <dir> start <edges>           *)
(* with the default options uniqueVertices "none", uniqueEdges "path".     *)
(* A path is the sequence of its steps [e, v]: the edge followed and the   *)
(* vertex reached.                                                         *)

Steps(cur, E, dir) ==
    {[e |-> e, v |-> e._to] : e \in {x \in E : x._from = cur}}
    \cup (IF dir = "ANY"
          THEN {[e |-> e, v |-> e._from] : e \in {x \in E : x._to = cur}}
          ELSE {})

EndOf(start, p) == IF p = <<>> THEN start ELSE p[Len(p)].v

EdgesOf(p) == {p[i].e : i \in 1..Len(p)}

uniqueEdgesPath(p, st) == st.e \notin EdgesOf(p)

RECURSIVE Walks(_, _, _, _)
Walks(start, E, dir, k) ==
    IF k = 0 THEN {<<>>}
    ELSE UNION {{Append(p, st) : st \in {s \in Steps(EndOf(start, p), E, dir) :
                                            uniqueEdgesPath(p, s)}}
                : p \in Walks(start, E, dir, k - 1)}

Traverse(start, E, dir, lo, hi) ==
    IF ~Exists(start) THEN {}
    ELSE UNION {Walks(start, E, dir, k) : k \in lo..hi}

\* p.vertices: the start vertex followed by the vertex of every step
VerticesOf(start, p) == <<start>> \o [i \in 1..Len(p) |-> p[i].v]

-----------------------------------------------------------------------------
(* Universe of the model *)

I1 == Id("initiatives", "i1")
O1 == Id("outcomes", "o1")
O2 == Id("outcomes", "o2")
O3 == Id("outcomes", "o3")
O4 == Id("outcomes", "o4")
M1 == Id("metrics", "m1")
M2 == Id("metrics", "m2")
E1 == Id("employees", "e1")

Half == Num(1, 2)

Strengths == {Int2Num(0), Half}

OutcomeTypes == {"intended", "unintended", "emergent"}

InitiativeDoc == [name |-> "Test Initiative", status |-> "active"]

OutcomeDoc(t) == [type |-> t]

MetricDoc(v, t) == [type |-> "custom", value |-> v, target |-> t]

NoResult == [op |-> "none"]

Idle == [phase |-> "idle"]

\* no call of InitiativeService is in flight
NoCall == [pc |-> "idle"]

-----------------------------------------------------------------------------
(* collection.save of an edge document: ArangoDB stores the edge whatever  *)
(* its endpoints are                                                       *)

SaveResult(e) == [op |-> "save", value |-> e]

-----------------------------------------------------------------------------
(* AnalyticsService.traceCausalPath *)

\* edge.strength || 0.5
edgeStrength(e) == AqlOr(e.strength, Half)

totalStrength(es) == AqlProduct([i \in 1..Len(es) |-> edgeStrength(es[i])])

PathRecord(fromId, toId, p) ==
    [from |-> fromId,
     to |-> toId,
     path |-> [i \in 1..(Len(p) + 1) |->
                 [node |-> VerticesOf(fromId, p)[i],
                  type |-> VerticesOf(fromId, p)[i].coll]],
     totalStrength |-> totalStrength([i \in 1..Len(p) |-> p[i].e]),
     length |-> Len(VerticesOf(fromId, p)),
     edges |-> [i \in 1..Len(p) |-> p[i].e]]

CausalPathsOneHopFurther(fromId, toId, maxDepth) ==
    {PathRecord(fromId, toId, p) :
        p \in {q \in Traverse(fromId, causes, "OUTBOUND", 1, maxDepth + 1) :
                 Exists(EndOf(fromId, q)) /\ EndOf(fromId, q) = toId}}

CausalPathsFromDepthZero(fromId, toId, maxDepth) ==
    {PathRecord(fromId, toId, p) :
        p \in {q \in Traverse(fromId, causes, "OUTBOUND", 0, maxDepth) :
                 Exists(EndOf(fromId, q)) /\ EndOf(fromId, q) = toId}}

CausalPaths(fromId, toId, maxDepth) ==
    {PathRecord(fromId, toId, p) :
        p \in {q \in Traverse(fromId, causes, "OUTBOUND", 1, maxDepth) :
                 Exists(EndOf(fromId, q)) /\ EndOf(fromId, q) = toId}}

traceCausalPath(fromId, toId, maxDepth) ==
    /\ result' = [op |-> "traceCausalPath", from |-> fromId, to |-> toId,
                  maxDepth |-> maxDepth,
                  value |-> CausalPaths(fromId, toId, maxDepth)]
    /\ UNCHANGED <<store, traversal, virtuoso, call>>

-----------------------------------------------------------------------------
(* Specification of the path queries: a store of three vertices whose      *)
(* causes edges are saved one at a time, queried by traceCausalPath        *)

PathVertices == {I1, O1, O2}

InitPath ==
    /\ initiatives = [k \in {"i1"} |-> InitiativeDoc]
    /\ outcomes = [k \in {"o1", "o2"} |->
                     OutcomeDoc(IF k = "o1" THEN "intended" ELSE "unintended")]
    /\ metrics = <<>>
    /\ employees = <<>>
    /\ departments = <<>>
    /\ causes = {}
    /\ measures = {}
    /\ influences = {}
    /\ participates_in = {}
    /\ belongs_to = {}
    /\ result = NoResult
    /\ traversal = Idle
    /\ virtuoso = {}
    /\ call = NoCall

saveCausesPath ==
    \E f \in PathVertices, t \in PathVertices, s \in Strengths :
        /\ Cardinality(causes) < MaxTraceCauses
        /\ Edge("causes", f, t, s) \notin causes
        /\ causes' = causes \cup {Edge("causes", f, t, s)}
        /\ result' = SaveResult(Edge("causes", f, t, s))
        /\ UNCHANGED <<initiatives, outcomes, metrics, employees,
                       measures, influences, participates_in, belongs_to,
                       traversal,
                       departments, virtuoso, call>>

\* "causal paths between an initiative and an outcome"
tracePath ==
    \E f \in {I1, O1}, t \in {O1, O2}, d \in 1..MaxDepth :
        traceCausalPath(f, t, d)

NextPath == saveCausesPath \/ tracePath

SpecPath == InitPath /\ [][NextPath]_vars

\* the strengths of the edges of a path as the store holds them
StoredStrengths(p) == [i \in 1..Len(p.edges) |-> p.edges[i].strength]

\* C3: every path returned by traceCausalPath reports as totalStrength the
\* product of the strengths of exactly its edges, strength 0 included
C3_PathStrengthLaw ==
    result.op = "traceCausalPath" =>
        \A p \in result.value : p.totalStrength = AqlProduct(StoredStrengths(p))

\* C4: every path returned by traceCausalPath is simple: no vertex
\* identifier occurs twice in its vertex sequence
C4_SimplePaths ==
    result.op = "traceCausalPath" =>
        \A p \in result.value :
            \A i, j \in 1..Len(p.path) : p.path[i].node = p.path[j].node => i = j

-----------------------------------------------------------------------------
(* The traversals of the queries, executed step by step.  Each query of    *)
(* the services fixes direction, edge set and depth range; the traverser   *)
(* keeps a stack of partial paths, pops one per step, emits it when its    *)
(* length is in range and pushes its extensions by one more edge.          *)

\* GRAPH 'causal_graph': the five edge collections of the graph
GraphEdges == causes \cup measures \cup influences \cup participates_in \cup belongs_to

EdgeSetOf(g) ==
    CASE g = "causes" -> causes
      [] g = "measures" -> measures
      [] OTHER -> GraphEdges

Profile(q, dir, g, lo, hi) == [query |-> q, dir |-> dir, graph |-> g, lo |-> lo, hi |-> hi]

TraversalProfiles ==
    {Profile("traceCausalPath", "OUTBOUND", "causes", 1, d) : d \in 1..MaxDepth}
    \cup {Profile("findUnintendedConsequences", "OUTBOUND", "causes", 1, 3),
          Profile("calculateIntentionRealityGap.intended", "OUTBOUND", "causes", 1, 1),
          Profile("calculateIntentionRealityGap.actual", "OUTBOUND", "causes", 1, 2),
          Profile("calculateIntentionRealityGap.metrics", "OUTBOUND", "measures", 1, 1),
          Profile("detectMetricTheater", "ANY", "causal_graph", 1, 2)}

\* an edge is followed while the path is shorter than the upper depth and
\* does not hold the edge yet
mayExtendUnbounded(p, st, hi) == TRUE

mayExtend(p, st, hi) == Len(p) < hi /\ uniqueEdgesPath(p, st)

RECURSIVE Falling(_, _)
Falling(n, k) == IF k = 0 THEN 1 ELSE IF n = 0 THEN 0 ELSE n * Falling(n - 1, k - 1)

RECURSIVE PathBound(_, _)
\* the number of edge-distinct paths of at most hi edges over n edges
PathBound(n, hi) == Falling(n, hi) + (IF hi = 0 THEN 0 ELSE PathBound(n, hi - 1))

Extensions(t, p) ==
    {Append(p, st) : st \in {s \in Steps(EndOf(t.start, p), EdgeSetOf(t.graph), t.dir) :
                               mayExtend(p, s, t.hi)}}

beginTraversal ==
    \E start \in {I1, O1, O2}, prof \in TraversalProfiles :
        /\ traversal.phase # "running"
        /\ Exists(start)
        /\ traversal' = [phase |-> "running", start |-> start, dir |-> prof.dir,
                         graph |-> prof.graph, lo |-> prof.lo, hi |-> prof.hi,
                         stack |-> << <<>> >>, out |-> {}, steps |-> 0]
        /\ result' = NoResult
        /\ UNCHANGED <<store, virtuoso, call>>

traverseStep ==
    /\ traversal.phase = "running"
    /\ traversal.stack # <<>>
    /\ traversal.steps < PathBound(Cardinality(EdgeSetOf(traversal.graph)), traversal.hi)
    /\ LET p == Head(traversal.stack)
       IN  traversal' = [traversal EXCEPT
                           !.stack = SetToSeq(Extensions(traversal, p)) \o Tail(@),
                           !.out = IF Len(p) >= traversal.lo THEN @ \cup {p} ELSE @,
                           !.steps = @ + 1]
    /\ UNCHANGED <<store, result, virtuoso, call>>

finishTraversal ==
    /\ traversal.phase = "running"
    /\ traversal.stack = <<>>
    /\ traversal' = [traversal EXCEPT !.phase = "done"]
    /\ result' = [op |-> "traverse", value |-> traversal.out]
    /\ UNCHANGED <<store, virtuoso, call>>

saveEdgeTraverse ==
    \E c \in {"causes", "influences"}, f \in {I1, O1, O2}, t \in {I1, O1, O2} :
        /\ traversal.phase # "running"
        /\ Cardinality(GraphEdges) < MaxGraphEdges
        /\ Edge(c, f, t, Half) \notin GraphEdges
        /\ causes' = IF c = "causes" THEN causes \cup {Edge(c, f, t, Half)} ELSE causes
        /\ influences' = IF c = "influences" THEN influences \cup {Edge(c, f, t, Half)}
                         ELSE influences
        /\ result' = SaveResult(Edge(c, f, t, Half))
        /\ traversal' = Idle
        /\ UNCHANGED <<initiatives, outcomes, metrics, employees,
                       measures, participates_in, belongs_to,
                       departments, virtuoso, call>>

NextTraverse == saveEdgeTraverse \/ beginTraversal \/ traverseStep \/ finishTraversal

SpecTraverse ==
    InitPath /\ [][NextTraverse]_vars /\ WF_vars(traverseStep) /\ WF_vars(finishTraversal)

\* the graph the running traversal walks has a cycle through its start vertex
\* or further on: some vertex is reachable from itself
HasCycle(E, dir) ==
    \E v \in {I1, O1, O2} : \E k \in 1..3 :
        \E p \in Walks(v, E, dir, k) : EndOf(v, p) = v

\* C5: every depth-bounded traversal of the queries, also on a graph with
\* cycles, terminates: once started it reaches the end of its enumeration
C5_Termination == (traversal.phase = "running") ~> (traversal.phase = "done")

\* the finished traversal has enumerated exactly the paths of the range and
\* none of them exceeds the upper depth
TraversalComplete ==
    traversal.phase = "done" =>
        /\ traversal.out = Traverse(traversal.start, EdgeSetOf(traversal.graph),
                                    traversal.dir, traversal.lo, traversal.hi)
        /\ \A p \in traversal.out : Len(p) <= traversal.hi
        /\ Cardinality(traversal.out) <=
              PathBound(Cardinality(EdgeSetOf(traversal.graph)), traversal.hi)

\* the cap on the number of steps never stops a traversal
StepCapUnused ==
    (traversal.phase = "running" /\ traversal.stack # <<>>) =>
        traversal.steps < PathBound(Cardinality(EdgeSetOf(traversal.graph)), traversal.hi)

C5_Witness ==
    /\ traversal.phase = "done"
    /\ HasCycle(EdgeSetOf(traversal.graph), traversal.dir)
    /\ traversal.out # {}
    /\ \E p \in traversal.out :
          \E i, j \in 1..Len(p) : i # j /\ p[i].v = p[j].v

-----------------------------------------------------------------------------
(* AnalyticsService.calculateIntentionRealityGap *)

ValueOf(id) ==
    IF Exists(id) /\ id.coll = "metrics" THEN metrics[id.key].value ELSE Null

TargetOf(id) ==
    IF Exists(id) /\ id.coll = "metrics" THEN metrics[id.key].target ELSE Null

\* The query is evaluated over the edge collections C (causes) and M
\* (measures) of the snapshot it reads.

\* FOR v IN 1..1 OUTBOUND initiative causes FILTER v.type == 'intended'
intended(initiative, C) ==
    {p \in Traverse(initiative, C, "OUTBOUND", 1, 1) :
        TypeOf(EndOf(initiative, p)) = "intended"}

actualTypesEmergentOnly == {"emergent"}

actualTypes == {"unintended", "emergent"}

\* FOR v IN 1..2 OUTBOUND initiative causes FILTER v.type IN [...]
actual(initiative, C) ==
    {p \in Traverse(initiative, C, "OUTBOUND", 1, 2) :
        TypeOf(EndOf(initiative, p)) \in actualTypes}

measuredMetricsOverCauses(initiative, M) == Traverse(initiative, causes, "OUTBOUND", 1, 1)

\* FOR v IN 1..1 OUTBOUND initiative measures
measuredMetrics(initiative, M) == Traverse(initiative, M, "OUTBOUND", 1, 1)

\* ABS(m.value - m.target) / m.target
metricGap(v, t) == AqlDiv(AqlAbs(AqlSub(v, t)), t)

avgMetricGap(initiative, M) ==
    LET ms == measuredMetrics(initiative, M)
        withBoth == SetToSeq({p \in ms : ~IsNull(TargetOf(EndOf(initiative, p)))
                                           /\ ~IsNull(ValueOf(EndOf(initiative, p)))})
        gaps == [i \in 1..Len(withBoth) |->
                    metricGap(ValueOf(EndOf(initiative, withBoth[i])),
                              TargetOf(EndOf(initiative, withBoth[i])))]
    IN  IF Cardinality(ms) > 0 THEN AqlAvg(gaps) ELSE Int2Num(0)

gapScore(initiative, C, M) ==
    AqlAdd(AqlAdd(AqlMul(Int2Num(Cardinality(actual(initiative, C))), Int2Num(10)),
                  AqlMul(avgMetricGap(initiative, M), Int2Num(50))),
           IF Cardinality(intended(initiative, C)) = 0 THEN Int2Num(25) ELSE Int2Num(0))

returnedGapScoreCappedAt75(g) == AqlMin2(g, Int2Num(75))

\* gapScore: MIN([gapScore, 100])
returnedGapScore(g) == AqlMin2(g, Int2Num(100))

\* gapScore > 75 ? 'severe' : (gapScore > 50 ? 'significant' : 'moderate')
analysisOf(g) ==
    IF AqlGreater(g, Int2Num(75)) THEN "severe"
    ELSE IF AqlGreater(g, Int2Num(50)) THEN "significant"
    ELSE "moderate"

\* the vertices a set of paths ends in, one entry for every path
EndVertices(start, ps) ==
    LET s == SetToSeq(ps) IN [i \in 1..Len(s) |-> EndOf(start, s[i])]

IntentionRealityGap(initiativeId) ==
    LET initiative == Id("initiatives", initiativeId)
        acts == actual(initiative, causes)
        score == gapScore(initiative, causes, measures)
    IN  [initiativeId |-> IF Exists(initiative) THEN initiativeId ELSE "null",
         actualOutcomes |-> EndVertices(initiative, acts),
         gapScore |-> returnedGapScore(score),
         unintendedConsequences |-> EndVertices(initiative, acts),
         analysis |-> analysisOf(score),
         detected |-> Cardinality(acts)]

calculateIntentionRealityGap(initiativeId) ==
    /\ result' = [op |-> "calculateIntentionRealityGap", arg |-> initiativeId,
                  value |-> IntentionRealityGap(initiativeId)]
    /\ UNCHANGED <<store, traversal, virtuoso, call>>

-----------------------------------------------------------------------------
(* InitiativeService.findUnintendedConsequences *)

UnintendedConsequencesWithinTwoHops(initiativeId) ==
    LET initiative == Id("initiatives", initiativeId)
    IN  {EndOf(initiative, p) :
            p \in {q \in Traverse(initiative, causes, "OUTBOUND", 1, 2) :
                     /\ Exists(EndOf(initiative, q))
                     /\ EndOf(initiative, q).coll = "outcomes"
                     /\ TypeOf(EndOf(initiative, q)) = "unintended"}}

\* FOR v, e, p IN 1..3 OUTBOUND DOCUMENT('initiatives', id) causes
\*   FILTER v._id LIKE 'outcomes/%' FILTER v.type == 'unintended'
\*   RETURN DISTINCT v
UnintendedConsequences(initiativeId) ==
    LET initiative == Id("initiatives", initiativeId)
    IN  {EndOf(initiative, p) :
            p \in {q \in Traverse(initiative, causes, "OUTBOUND", 1, 3) :
                     /\ Exists(EndOf(initiative, q))
                     /\ EndOf(initiative, q).coll = "outcomes"
                     /\ TypeOf(EndOf(initiative, q)) = "unintended"}}

findUnintendedConsequences(initiativeId) ==
    /\ result' = [op |-> "findUnintendedConsequences", arg |-> initiativeId,
                  value |-> SetToSeq(UnintendedConsequences(initiativeId))]
    /\ UNCHANGED <<store, traversal, virtuoso, call>>

-----------------------------------------------------------------------------
(* Specification of the gap queries: one initiative, two outcomes and two  *)
(* metrics whose attributes are drawn at the start; causes and measures    *)
(* edges are saved one at a time                                           *)

MetricTargets == {Null, Int2Num(0), Int2Num(10), Int2Num(90), Int2Num(-10)}

\* the metric documents of the gap specification
GapMetricDocs ==
    {[m1 |-> MetricDoc(v, t), m2 |-> MetricDoc(Int2Num(95), Int2Num(90))] :
        v \in {Int2Num(20), Int2Num(30), Int2Num(50)}, t \in MetricTargets}
    \cup {[m1 |-> MetricDoc(Null, Int2Num(90)),
           m2 |-> MetricDoc(Int2Num(50), Int2Num(90))]}

InitGap ==
    /\ initiatives = [k \in {"i1"} |-> InitiativeDoc]
    /\ outcomes \in [{"o1", "o2"} -> {OutcomeDoc(t) : t \in OutcomeTypes}]
    /\ metrics \in GapMetricDocs
    /\ employees = <<>>
    /\ departments = <<>>
    /\ causes = {}
    /\ measures = {}
    /\ influences = {}
    /\ participates_in = {}
    /\ belongs_to = {}
    /\ result = NoResult
    /\ traversal = Idle
    /\ virtuoso = {}
    /\ call = NoCall

saveCausesGap ==
    \E f \in {I1, O1, O2}, t \in {O1, O2} :
        /\ Cardinality(causes) < MaxCauses
        /\ Edge("causes", f, t, Half) \notin causes
        /\ causes' = causes \cup {Edge("causes", f, t, Half)}
        /\ result' = SaveResult(Edge("causes", f, t, Half))
        /\ UNCHANGED <<initiatives, outcomes, metrics, employees,
                       measures, influences, participates_in, belongs_to,
                       traversal,
                       departments, virtuoso, call>>

saveMeasuresGap ==
    \E t \in {M1, M2} :
        /\ Edge("measures", I1, t, Half) \notin measures
        /\ measures' = measures \cup {Edge("measures", I1, t, Half)}
        /\ result' = SaveResult(Edge("measures", I1, t, Half))
        /\ UNCHANGED <<initiatives, outcomes, metrics, employees,
                       causes, influences, participates_in, belongs_to,
                       traversal,
                       departments, virtuoso, call>>

NextGap ==
    \/ saveCausesGap
    \/ saveMeasuresGap
    \/ calculateIntentionRealityGap("i1")
    \/ findUnintendedConsequences("i1")

SpecGap == InitGap /\ [][NextGap]_vars

-----------------------------------------------------------------------------
(* Properties of the gap score *)

\* the vertices one outbound edge of E away from a vertex of S
Successors(S, E) == {e._to : e \in {x \in E : x._from \in S}}

IsOutcomeOfType(v, types) ==
    v.coll = "outcomes" /\ v.key \in DOMAIN outcomes /\ outcomes[v.key].type \in types

\* the distinct outcomes the claim calls intended and actual
IntendedOutcomes(i) ==
    {v \in Successors({i}, causes) : IsOutcomeOfType(v, {"intended"})}

ActualOutcomes(i) ==
    {v \in Successors({i}, causes) \cup Successors(Successors({i}, causes), causes) :
        IsOutcomeOfType(v, {"unintended", "emergent"})}

QualifyingMetrics(i) ==
    {v \in Successors({i}, measures) :
        /\ v.coll = "metrics" /\ v.key \in DOMAIN metrics
        /\ ~IsNull(metrics[v.key].value)
        /\ ~IsNull(metrics[v.key].target)
        /\ metrics[v.key].target.n # 0}

RatLeq(a, b) == a.n * b.d <= b.n * a.d

Clamp(x, lo, hi) == IF RatLeq(x, lo) THEN lo ELSE IF RatLeq(hi, x) THEN hi ELSE x

\* |value - target| / target of a metric whose target is not 0
RelativeGap(v, t) ==
    Num(AbsInt(v.n * t.d - t.n * v.d) * t.d, v.d * t.d * t.n)

RatAdd(a, b) == Num(a.n * b.d + b.n * a.d, a.d * b.d)

RECURSIVE RatSum(_)
RatSum(s) == IF s = <<>> THEN Int2Num(0) ELSE RatAdd(Head(s), RatSum(Tail(s)))

ExpectedAvgMetricGap(i) ==
    LET ms == SetToSeq(QualifyingMetrics(i))
        total == RatSum([k \in 1..Len(ms) |->
                           RelativeGap(metrics[ms[k].key].value,
                                       metrics[ms[k].key].target)])
    IN  IF ms = <<>> THEN Int2Num(0)
        ELSE Num(total.n, total.d * Len(ms))

ExpectedGapScore(i) ==
    LET avg == ExpectedAvgMetricGap(i)
        raw == Num((10 * Cardinality(ActualOutcomes(i))
                      + (IF IntendedOutcomes(i) = {} THEN 25 ELSE 0)) * avg.d
                   + 50 * avg.n, avg.d)
    IN  Clamp(raw, Int2Num(0), Int2Num(100))

IsGapResult == result.op = "calculateIntentionRealityGap"

\* C1: the returned gapScore is clamp(10*|actual| + 50*avgMetricGap +
\* (25 if no intended outcome), 0, 100) over the distinct actual outcomes of
\* hops 1..2 and the hop-1 metrics with value, target and target # 0
C1_GapFormula ==
    IsGapResult => result.value.gapScore = ExpectedGapScore(I1)

\* C2: the returned gapScore lies in [0, 100] whatever the outcomes and the
\* values and targets of the measured metrics
C2_GapBounded ==
    IsGapResult =>
        /\ RatLeq(Int2Num(0), result.value.gapScore)
        /\ RatLeq(result.value.gapScore, Int2Num(100))

NoDuplicates(s) == \A i, j \in 1..Len(s) : s[i] = s[j] => i = j

\* C6: an outcome reachable by more than one path within the hop bound is
\* listed once in actualOutcomes / unintendedConsequences of the gap record
\* and once in the result of findUnintendedConsequences
C6_Deduplicated ==
    /\ IsGapResult =>
          /\ NoDuplicates(result.value.actualOutcomes)
          /\ NoDuplicates(result.value.unintendedConsequences)
    /\ result.op = "findUnintendedConsequences" => NoDuplicates(result.value)

\* a step that saves one causes edge from the initiative to the outcome o,
\* of type 'unintended', which the initiative was not linked to
AddsUnintendedOutcome(o) ==
    /\ IsOutcomeOfType(o, {"unintended"})
    /\ \A e \in causes : ~(e._from = I1 /\ e._to = o)
    /\ \E e \in causes' : e._from = I1 /\ e._to = o /\ causes' = causes \cup {e}

\* the gap score a query returns over the causes edges C
ReturnedGap(C) == returnedGapScore(gapScore(I1, C, measures))

\* C7: saving one more causes edge from the initiative to a further
\* unintended outcome never lowers the gap score and raises it strictly
\* unless the score was already 100
C7_GapMonotone ==
    [][\A o \in {O1, O2} :
          (AddsUnintendedOutcome(o) /\ UNCHANGED <<initiatives, outcomes, metrics, measures>>) =>
              /\ RatLeq(ReturnedGap(causes), ReturnedGap(causes'))
              /\ (ReturnedGap(causes) # Int2Num(100) =>
                     ReturnedGap(causes) # ReturnedGap(causes'))]_vars

C7_Witness ==
    /\ result.op = "save"
    /\ result.value.coll = "causes"
    /\ result.value._from = I1
    /\ IsOutcomeOfType(result.value._to, {"unintended"})
    /\ causes \ {result.value} # {}
    /\ measures # {}
    /\ ReturnedGap(causes) # Int2Num(100)
    /\ RatLeq(ReturnedGap(causes \ {result.value}), ReturnedGap(causes))
    /\ ReturnedGap(causes \ {result.value}) # ReturnedGap(causes)

\* C20: the analysis names the class of the gapScore that is returned:
\* severe above 75, significant above 50 and at most 75, moderate at most 50
C20_AnalysisAgrees ==
    IsGapResult =>
        result.value.analysis =
            (IF ~RatLeq(result.value.gapScore, Int2Num(75)) THEN "severe"
             ELSE IF ~RatLeq(result.value.gapScore, Int2Num(50)) THEN "significant"
             ELSE "moderate")

\* a sum above 100 is returned as 100 and called severe
C20_Witness ==
    /\ IsGapResult
    /\ result.value.gapScore = Int2Num(100)
    /\ ~RatLeq(gapScore(I1, causes, measures), Int2Num(100))
    /\ result.value.analysis = "severe"

-----------------------------------------------------------------------------
(* AnalyticsService.findGameableMetrics *)

\* FILTER metric.target != null AND metric.value != null
hasValueAndTarget(m) == ~IsNull(m.target) /\ ~IsNull(m.value)

exceedsOrEquals(gap, threshold) == ~AqlLess(gap, threshold)

\* FILTER gap > threshold
exceeds(gap, threshold) == AqlGreater(gap, threshold)

suspicionLevelLoose(gap) ==
    IF ~AqlLess(gap, Num(9, 10)) THEN "EXTREME"
    ELSE IF ~AqlLess(gap, Num(7, 10)) THEN "HIGH"
    ELSE "MODERATE"

\* gap > 0.9 ? 'EXTREME' : (gap > 0.7 ? 'HIGH' : 'MODERATE')
suspicionLevel(gap) ==
    IF AqlGreater(gap, Num(9, 10)) THEN "EXTREME"
    ELSE IF AqlGreater(gap, Num(7, 10)) THEN "HIGH"
    ELSE "MODERATE"

\* a returned row, with the entities read over the measures edges E
GameableRowIn(k, E) ==
    LET gap == metricGap(metrics[k].value, metrics[k].target)
    IN  [metric |-> k,
         gap |-> gap,
         gapPercentage |-> AqlMul(gap, Int2Num(100)),
         measuredEntities |->
             EndVertices(Id("metrics", k),
                         Traverse(Id("metrics", k), E, "OUTBOUND", 1, 1)),
         suspicionLevel |-> suspicionLevel(gap)]

\* the rows restricted to the metrics that measure some entity
GameableRowsMeasured(threshold, E) ==
    {GameableRowIn(k, E) : k \in {j \in DOMAIN metrics :
        /\ hasValueAndTarget(metrics[j])
        /\ exceeds(metricGap(metrics[j].value, metrics[j].target), threshold)
        /\ Traverse(Id("metrics", j), E, "OUTBOUND", 1, 1) # {}}}

\* the rows of the query over the measures edges E
GameableRowsIn(threshold, E) ==
    {GameableRowIn(k, E) : k \in {j \in DOMAIN metrics :
        /\ hasValueAndTarget(metrics[j])
        /\ exceeds(metricGap(metrics[j].value, metrics[j].target), threshold)}}

GameableRows(threshold) == GameableRowsIn(threshold, measures)

\* SORT gap DESC: any order of the rows in which no gap precedes a larger one
SortedByGapDesc(rows) ==
    {s \in [1..Cardinality(rows) -> rows] :
        /\ \A i, j \in DOMAIN s : s[i] = s[j] => i = j
        /\ \A i, j \in DOMAIN s : i < j => ~AqlLess(s[i].gap, s[j].gap)}

findGameableMetrics(threshold) ==
    /\ \E rows \in SortedByGapDesc(GameableRows(threshold)) :
          result' = [op |-> "findGameableMetrics", threshold |-> threshold,
                     value |-> rows]
    /\ UNCHANGED <<store, traversal, virtuoso, call>>

-----------------------------------------------------------------------------
(* Specification of the metric audit: metric documents are saved one at a  *)
(* time with a value and a target, and queried by findGameableMetrics      *)

MetricKeys == <<"m1", "m2", "m3", "m4">>

AuditValues == {Null, Int2Num(5), Int2Num(9), Int2Num(20), Int2Num(27),
                Int2Num(45), Int2Num(50), Int2Num(95)}

AuditTargets == {Null, Int2Num(0), Int2Num(90)}

\* threshold: number = 0.5
defaultThreshold == Half

\* the default threshold and the one of the scenario
Thresholds == {defaultThreshold, Num(1, 20)}

InitAudit ==
    /\ initiatives = <<>>
    /\ outcomes = <<>>
    /\ metrics = <<>>
    /\ employees = [k \in {"e1"} |-> [department |-> "Engineering"]]
    /\ departments = <<>>
    /\ causes = {}
    /\ measures = {}
    /\ influences = {}
    /\ participates_in = {}
    /\ belongs_to = {}
    /\ result = NoResult
    /\ traversal = Idle
    /\ virtuoso = {}
    /\ call = NoCall

saveMetric ==
    \E v \in AuditValues, t \in AuditTargets :
        LET n == Cardinality(DOMAIN metrics)
        IN  /\ n < MaxMetrics
            /\ n < Len(MetricKeys)
            /\ metrics' = [k \in DOMAIN metrics \cup {MetricKeys[n + 1]} |->
                             IF k \in DOMAIN metrics THEN metrics[k]
                             ELSE MetricDoc(v, t)]
            /\ result' = [op |-> "save", value |-> Id("metrics", MetricKeys[n + 1])]
            /\ UNCHANGED <<initiatives, outcomes, employees, causes, measures,
                           influences, participates_in, belongs_to, traversal,
                           departments, virtuoso, call>>

saveMeasuresAudit ==
    /\ "m1" \in DOMAIN metrics
    /\ Edge("measures", M1, E1, Half) \notin measures
    /\ measures' = measures \cup {Edge("measures", M1, E1, Half)}
    /\ result' = SaveResult(Edge("measures", M1, E1, Half))
    /\ UNCHANGED <<initiatives, outcomes, metrics, employees, causes,
                   influences, participates_in, belongs_to, traversal,
                   departments, virtuoso, call>>

gameableAudit == \E th \in Thresholds : findGameableMetrics(th)

NextAudit == saveMetric \/ saveMeasuresAudit \/ gameableAudit

SpecAudit == InitAudit /\ [][NextAudit]_vars

IsGameableResult == result.op = "findGameableMetrics"

\* the metrics the claim expects: value and target set, target # 0 and
\* |value - target| / target strictly above the threshold
ExpectedGameable(threshold) ==
    {k \in DOMAIN metrics :
        /\ ~IsNull(metrics[k].value)
        /\ ~IsNull(metrics[k].target)
        /\ metrics[k].target.n # 0
        /\ ~RatLeq(RelativeGap(metrics[k].value, metrics[k].target), threshold)}

\* C8: findGameableMetrics returns exactly the metrics with value and target
\* set, target # 0 and gap strictly above the threshold, each once, with
\* its gap, in descending order of gap
C8_GameableExact ==
    IsGameableResult =>
        /\ {result.value[i].metric : i \in DOMAIN result.value}
              = ExpectedGameable(result.threshold)
        /\ \A i, j \in DOMAIN result.value :
              result.value[i].metric = result.value[j].metric => i = j
        /\ \A i \in DOMAIN result.value :
              result.value[i].gap = RelativeGap(metrics[result.value[i].metric].value,
                                                metrics[result.value[i].metric].target)
        /\ \A i, j \in DOMAIN result.value :
              i < j => RatLeq(result.value[j].gap, result.value[i].gap)

\* the scenario of the claim: 95 against a target of 90 is returned for the
\* threshold 0.05, next to a metric of larger gap that precedes it
C8_Witness ==
    /\ IsGameableResult
    /\ result.threshold = Num(1, 20)
    /\ Len(result.value) = 2
    /\ metrics[result.value[2].metric].value = Int2Num(95)
    /\ metrics[result.value[2].metric].target = Int2Num(90)
    /\ result.value[1].gap # result.value[2].gap

\* C9: every returned record is labelled EXTREME when its gap is above 0.9,
\* HIGH when above 0.7 and at most 0.9, MODERATE otherwise
C9_SuspicionLevel ==
    IsGameableResult =>
        \A i \in DOMAIN result.value :
            LET g == result.value[i].gap
            IN  result.value[i].suspicionLevel =
                   (IF ~RatLeq(g, Num(9, 10)) THEN "EXTREME"
                    ELSE IF ~RatLeq(g, Num(7, 10)) THEN "HIGH"
                    ELSE "MODERATE")

\* a record of gap exactly 0.9 labelled HIGH next to one labelled MODERATE
\* that a threshold below the default let in
C9_Witness ==
    /\ IsGameableResult
    /\ result.threshold = Num(1, 20)
    /\ \E i \in DOMAIN result.value :
          result.value[i].gap = Num(9, 10) /\ result.value[i].suspicionLevel = "HIGH"
    /\ \E i \in DOMAIN result.value :
          /\ RatLeq(result.value[i].gap, Half)
          /\ result.value[i].suspicionLevel = "MODERATE"

-----------------------------------------------------------------------------
(* AnalyticsService.detectMetricTheater *)

theaterDirectionOutbound == "OUTBOUND"

\* FOR v, e IN 1..2 ANY metric GRAPH 'causal_graph'
theaterDirection == "ANY"

\* FILTER v._id LIKE 'initiatives/%'
linkedInitiatives(metric) ==
    {p \in Traverse(metric, GraphEdges, theaterDirection, 1, 2) :
        Exists(EndOf(metric, p)) /\ EndOf(metric, p).coll = "initiatives"}

\* FOR metric IN M ... FILTER LENGTH(linkedInitiatives) == 0, over the metric
\* documents M
TheaterRowsIn(M) ==
    {[metric |-> k, theaterScore |-> 100] :
        k \in {j \in DOMAIN M :
                 Cardinality(linkedInitiatives(Id("metrics", j))) = 0}}

TheaterRows == TheaterRowsIn(metrics)

detectMetricTheater ==
    /\ result' = [op |-> "detectMetricTheater", value |-> SetToSeq(TheaterRows)]
    /\ UNCHANGED <<store, traversal, virtuoso, call>>

-----------------------------------------------------------------------------
(* Specification of the theater detection: two metrics, an initiative that *)
(* may be missing, an outcome and an employee; edges of the graph are      *)
(* saved one at a time                                                     *)

\* the edge definitions of causal_graph
EdgeDefinitions ==
    [causes |-> [from |-> {"initiatives", "events", "metrics"},
                 to |-> {"outcomes", "events", "metrics"}],
     participates_in |-> [from |-> {"employees"}, to |-> {"initiatives", "events"}],
     measures |-> [from |-> {"metrics"}, to |-> {"employees", "departments", "outcomes"}],
     belongs_to |-> [from |-> {"employees"}, to |-> {"departments"}],
     influences |-> [from |-> {"initiatives", "metrics"},
                     to |-> {"employees", "departments"}]]

TheaterVertices == {I1, O1, M1, M2, E1}

\* the edges saved here follow the edge definitions, next to the measures
\* edges out of an initiative that calculateIntentionRealityGap reads
TheaterEdges ==
    {Edge(c, f, t, Half) : c \in DOMAIN EdgeDefinitions,
                           f \in TheaterVertices, t \in TheaterVertices}

Conforms(e) ==
    \/ /\ e._from.coll \in EdgeDefinitions[e.coll].from
       /\ e._to.coll \in EdgeDefinitions[e.coll].to
    \/ e.coll = "measures" /\ e._from.coll = "initiatives" /\ e._to.coll = "metrics"

InitTheater ==
    /\ initiatives \in {<<>>, [k \in {"i1"} |-> InitiativeDoc]}
    /\ outcomes = [k \in {"o1"} |-> OutcomeDoc("unintended")]
    /\ metrics = [k \in {"m1", "m2"} |-> MetricDoc(Int2Num(75), Null)]
    /\ employees = [k \in {"e1"} |-> [department |-> "Engineering"]]
    /\ departments = <<>>
    /\ causes = {}
    /\ measures = {}
    /\ influences = {}
    /\ participates_in = {}
    /\ belongs_to = {}
    /\ result = NoResult
    /\ traversal = Idle
    /\ virtuoso = {}
    /\ call = NoCall

saveEdgeTheater ==
    \E e \in TheaterEdges :
        /\ Conforms(e)
        /\ Cardinality(GraphEdges) < MaxTheaterEdges
        /\ e \notin GraphEdges
        /\ causes' = IF e.coll = "causes" THEN causes \cup {e} ELSE causes
        /\ measures' = IF e.coll = "measures" THEN measures \cup {e} ELSE measures
        /\ influences' = IF e.coll = "influences" THEN influences \cup {e} ELSE influences
        /\ participates_in' = IF e.coll = "participates_in" THEN participates_in \cup {e}
                              ELSE participates_in
        /\ belongs_to' = IF e.coll = "belongs_to" THEN belongs_to \cup {e} ELSE belongs_to
        /\ result' = SaveResult(e)
        /\ UNCHANGED <<initiatives, outcomes, metrics, employees, traversal,
                       departments, virtuoso, call>>

NextTheater == saveEdgeTheater \/ detectMetricTheater

SpecTheater == InitTheater /\ [][NextTheater]_vars

\* the vertices one edge of the graph away from a vertex of S, in either
\* direction
Neighbours(S) ==
    {e._to : e \in {x \in GraphEdges : x._from \in S}}
    \cup {e._from : e \in {x \in GraphEdges : x._to \in S}}

IsInitiative(v) == v.coll = "initiatives" /\ v.key \in DOMAIN initiatives

InitiativeWithinTwoHops(m) ==
    \E v \in Neighbours({m}) \cup Neighbours(Neighbours({m})) : IsInitiative(v)

IsTheaterResult == result.op = "detectMetricTheater"

\* C10: detectMetricTheater returns one record, of theaterScore 100, for
\* each metric from which no initiative is reachable within 1..2 hops over
\* the edges of causal_graph in either direction, and none for the others
C10_TheaterExact ==
    IsTheaterResult =>
        /\ {result.value[i].metric : i \in DOMAIN result.value}
              = {k \in DOMAIN metrics : ~InitiativeWithinTwoHops(Id("metrics", k))}
        /\ \A i, j \in DOMAIN result.value :
              result.value[i].metric = result.value[j].metric => i = j
        /\ \A i \in DOMAIN result.value : result.value[i].theaterScore = 100

\* m1 is linked to the initiative by exactly two hops, the second against
\* the direction of its edge, and m2 is theater although three hops link it
C10_Witness ==
    /\ IsTheaterResult
    /\ Len(result.value) = 1
    /\ result.value[1].metric = "m2"
    /\ result.value[1].theaterScore = 100
    /\ ~(\E v \in Neighbours({M1}) : IsInitiative(v))
    /\ Edge("causes", I1, O1, Half) \in causes
    /\ M1 \in Neighbours({M2})

-----------------------------------------------------------------------------
(* Specification of the two detections together: the store of the theater  *)
(* specification with metrics that carry a value and a target, queried by  *)
(* detectMetricTheater and by findGameableMetrics                          *)

DetectMetricDocs ==
    {MetricDoc(Int2Num(50), Int2Num(90)), MetricDoc(Int2Num(95), Int2Num(90)),
     MetricDoc(Int2Num(75), Null)}

InitDetect ==
    /\ initiatives = [k \in {"i1"} |-> InitiativeDoc]
    /\ outcomes = [k \in {"o1"} |-> OutcomeDoc("unintended")]
    /\ metrics \in {[m1 |-> d, m2 |-> MetricDoc(Int2Num(45), Int2Num(90))] :
                       d \in DetectMetricDocs}
    /\ employees = [k \in {"e1"} |-> [department |-> "Engineering"]]
    /\ departments = <<>>
    /\ causes = {}
    /\ measures = {}
    /\ influences = {}
    /\ participates_in = {}
    /\ belongs_to = {}
    /\ result = NoResult
    /\ traversal = Idle
    /\ virtuoso = {}
    /\ call = NoCall

saveEdgeDetect == Cardinality(GraphEdges) < MaxDetectEdges /\ saveEdgeTheater

NextDetect == saveEdgeDetect \/ detectMetricTheater \/ gameableAudit

SpecDetect == InitDetect /\ [][NextDetect]_vars

TheaterKeys(M) == {r.metric : r \in TheaterRowsIn(M)}

GameableKeys(threshold, E) == {r.metric : r \in GameableRowsIn(threshold, E)}

\* the metric documents with the value and the target of metric k replaced
WithValueAndTarget(k, v, t) ==
    [j \in DOMAIN metrics |-> IF j = k THEN MetricDoc(v, t) ELSE metrics[j]]

\* a metric is in the result of detectMetricTheater whatever its value and
\* its target are
TheaterIgnoresValues ==
    \A k \in DOMAIN metrics :
        \A v \in {Int2Num(50), Int2Num(95)}, t \in {Null, Int2Num(0), Int2Num(90)} :
            (k \in TheaterKeys(WithValueAndTarget(k, v, t))) <=> (k \in TheaterKeys(metrics))

\* a step that leaves the metric documents alone leaves the metrics of the
\* result of findGameableMetrics alone
GameableIgnoresEdges ==
    metrics' = metrics =>
        \A th \in Thresholds : GameableKeys(th, measures') = GameableKeys(th, measures)

\* C11: whether a metric is in the result of detectMetricTheater does not
\* depend on its value and target, and whether it is in the result of
\* findGameableMetrics does not change when only edges change
C11_Independent == []TheaterIgnoresValues /\ [][GameableIgnoresEdges]_vars

\* one metric is in both results at once: it is returned as theater, misses
\* its target by more than the threshold 0.05 and measures an entity, and
\* the other metric is linked to the initiative
C11_Witness ==
    /\ IsTheaterResult
    /\ \E i \in DOMAIN result.value :
          /\ result.value[i].metric \in GameableKeys(Num(1, 20), measures)
          /\ Traverse(Id("metrics", result.value[i].metric), measures,
                      "OUTBOUND", 1, 1) # {}
    /\ Len(result.value) = 1

-----------------------------------------------------------------------------
(* AnalyticsService.calculateDepartmentSynergy *)

\* dept.name; null when DOCUMENT('departments', id) is null
NameOf(departmentId) ==
    IF departmentId \in DOMAIN departments THEN departments[departmentId].name
    ELSE "null"

\* FOR emp IN employees FILTER emp.department == dept.name
deptEmployees(departmentId) ==
    {k \in DOMAIN employees : employees[k].department = NameOf(departmentId)}

\* FOR init IN initiatives FILTER init.department == dept.name
deptInitiatives(departmentId) ==
    {k \in DOMAIN initiatives : initiatives[k].department = NameOf(departmentId)}

\* AVG(FOR emp IN employees FILTER emp.wellnessScore != null RETURN emp.wellnessScore)
avgWellness(departmentId) ==
    LET emps == SetToSeq({k \in deptEmployees(departmentId) :
                            ~IsNull(employees[k].wellnessScore)})
    IN  AqlAvg([i \in 1..Len(emps) |-> employees[emps[i]].wellnessScore])

avgEngagement(departmentId) ==
    LET emps == SetToSeq({k \in deptEmployees(departmentId) :
                            ~IsNull(employees[k].engagementLevel)})
    IN  AqlAvg([i \in 1..Len(emps) |-> employees[emps[i]].engagementLevel])

completedInitiatives(departmentId) ==
    Cardinality({k \in deptInitiatives(departmentId) :
                    initiatives[k].status = "completed"})

abandonedInitiatives(departmentId) ==
    Cardinality({k \in deptInitiatives(departmentId) :
                    initiatives[k].status = "abandoned"})

initiativeSuccessRateUnsmoothed(completed, abandoned) ==
    AqlDiv(Int2Num(completed), Int2Num(completed + abandoned))

initiativeSuccessRateSmoothedTwice(completed, abandoned) ==
    AqlDiv(Int2Num(completed + 1), Int2Num(completed + abandoned + 1))

\* completedInitiatives / (completedInitiatives + abandonedInitiatives + 1)
initiativeSuccessRate(completed, abandoned) ==
    AqlDiv(Int2Num(completed), Int2Num(completed + abandoned + 1))

\* avgWellness * 0.3 + avgEngagement * 0.3 + successRate * 40
synergyScore(departmentId) ==
    AqlAdd(AqlAdd(AqlMul(avgWellness(departmentId), Num(3, 10)),
                  AqlMul(avgEngagement(departmentId), Num(3, 10))),
           AqlMul(initiativeSuccessRate(completedInitiatives(departmentId),
                                        abandonedInitiatives(departmentId)),
                  Int2Num(40)))

synergyGradeInclusive(score) ==
    IF ~AqlLess(score, Int2Num(80)) THEN "SYNERGIZED"
    ELSE IF ~AqlLess(score, Int2Num(60)) THEN "ALIGNED"
    ELSE "SILOED"

\* synergyScore > 80 ? 'SYNERGIZED' : (synergyScore > 60 ? 'ALIGNED' : 'SILOED')
synergyGrade(score) ==
    IF AqlGreater(score, Int2Num(80)) THEN "SYNERGIZED"
    ELSE IF AqlGreater(score, Int2Num(60)) THEN "ALIGNED"
    ELSE "SILOED"

DepartmentSynergy(departmentId) ==
    [department |-> IF departmentId \in DOMAIN departments THEN departmentId
                    ELSE "null",
     employeeCount |-> Cardinality(deptEmployees(departmentId)),
     avgWellness |-> avgWellness(departmentId),
     avgEngagement |-> avgEngagement(departmentId),
     initiativeSuccessRate |->
         initiativeSuccessRate(completedInitiatives(departmentId),
                               abandonedInitiatives(departmentId)),
     synergyScore |-> synergyScore(departmentId),
     synergyGrade |-> synergyGrade(synergyScore(departmentId)),
     ironyLevel |-> "MAXIMUM"]

\* results[0] || null: the query returns one row for every argument
calculateDepartmentSynergy(departmentId) ==
    /\ result' = [op |-> "calculateDepartmentSynergy", arg |-> departmentId,
                  value |-> DepartmentSynergy(departmentId)]
    /\ UNCHANGED <<store, traversal, virtuoso, call>>

-----------------------------------------------------------------------------
(* Specification of the score queries: two departments; employees and      *)
(* initiatives are saved one at a time and the scores are asked for known  *)
(* and unknown identifiers                                                 *)

EmployeeKeys == <<"e1", "e2", "e3">>

InitiativeKeys == <<"i1", "i2", "i3">>

EmployeeDoc(d, w, g) == [department |-> d, wellnessScore |-> w, engagementLevel |-> g]

EmployeeDocs ==
    {EmployeeDoc("Engineering", Int2Num(80), Int2Num(75)),
     EmployeeDoc("Engineering", Int2Num(70), Int2Num(65)),
     EmployeeDoc("Engineering", Int2Num(100), Int2Num(100)),
     EmployeeDoc("Engineering", Null, Null),
     EmployeeDoc("Engineering", Null, Int2Num(65)),
     EmployeeDoc("Sales", Int2Num(80), Int2Num(75))}

DepartmentInitiativeDoc(d, st) == [name |-> "Project", status |-> st, department |-> d]

DepartmentInitiativeDocs ==
    {DepartmentInitiativeDoc("Engineering", st) :
        st \in {"active", "completed", "abandoned"}}
    \cup {DepartmentInitiativeDoc("Sales", "completed")}

InitSynergy ==
    /\ initiatives = <<>>
    /\ outcomes = <<>>
    /\ metrics = <<>>
    /\ employees = <<>>
    /\ departments = [k \in {"d1", "d2"} |->
                        [name |-> IF k = "d1" THEN "Engineering" ELSE "Sales"]]
    /\ causes = {}
    /\ measures = {}
    /\ influences = {}
    /\ participates_in = {}
    /\ belongs_to = {}
    /\ result = NoResult
    /\ traversal = Idle
    /\ virtuoso = {}
    /\ call = NoCall

saveEmployee ==
    \E doc \in EmployeeDocs :
        LET n == Cardinality(DOMAIN employees)
        IN  /\ n < MaxEmployees
            /\ n < Len(EmployeeKeys)
            /\ employees' = [k \in DOMAIN employees \cup {EmployeeKeys[n + 1]} |->
                               IF k \in DOMAIN employees THEN employees[k] ELSE doc]
            /\ result' = [op |-> "save", value |-> Id("employees", EmployeeKeys[n + 1])]
            /\ UNCHANGED <<initiatives, outcomes, metrics, departments, causes,
                           measures, influences, participates_in, belongs_to,
                           traversal, virtuoso, call>>

saveInitiative ==
    \E doc \in DepartmentInitiativeDocs :
        LET n == Cardinality(DOMAIN initiatives)
        IN  /\ n < MaxInitiatives
            /\ n < Len(InitiativeKeys)
            /\ initiatives' = [k \in DOMAIN initiatives \cup {InitiativeKeys[n + 1]} |->
                                 IF k \in DOMAIN initiatives THEN initiatives[k] ELSE doc]
            /\ result' = [op |-> "save", value |-> Id("initiatives", InitiativeKeys[n + 1])]
            /\ UNCHANGED <<outcomes, metrics, employees, departments, causes,
                           measures, influences, participates_in, belongs_to,
                           traversal, virtuoso, call>>

\* a department that exists, and an identifier no department has
synergyQuery == \E d \in {"d1", "d2", "d9"} : calculateDepartmentSynergy(d)

gapQuery == \E i \in {"i1", "i9"} : calculateIntentionRealityGap(i)

NextSynergy == saveEmployee \/ saveInitiative \/ synergyQuery \/ gapQuery

SpecSynergy == InitSynergy /\ [][NextSynergy]_vars

IsSynergyResult == result.op = "calculateDepartmentSynergy"

\* the mean of the defined values of a field over the employees whose
\* department is the name of department d; 0 when there is none
MeanOf(d, field) ==
    LET ks == SetToSeq({k \in DOMAIN employees :
                          /\ employees[k].department = departments[d].name
                          /\ employees[k][field].d # 0})
        total == RatSum([i \in 1..Len(ks) |-> employees[ks[i]][field]])
    IN  IF ks = <<>> THEN Int2Num(0) ELSE Num(total.n, total.d * Len(ks))

CountStatus(d, st) ==
    Cardinality({k \in DOMAIN initiatives :
                    /\ initiatives[k].department = departments[d].name
                    /\ initiatives[k].status = st})

ExpectedSynergy(d) ==
    LET w == MeanOf(d, "wellnessScore")
        g == MeanOf(d, "engagementLevel")
        c == CountStatus(d, "completed")
        a == CountStatus(d, "abandoned")
    IN  RatAdd(RatAdd(Num(3 * w.n, 10 * w.d), Num(3 * g.n, 10 * g.d)),
               Num(40 * c, c + a + 1))

\* C12: for every existing department the returned synergyScore is
\* 0.3*avgWellness + 0.3*avgEngagement + 40*completed/(completed+abandoned+1)
\* over the employees and initiatives of the department's name
C12_SynergyFormula ==
    (IsSynergyResult /\ result.arg \in DOMAIN departments) =>
        result.value.synergyScore = ExpectedSynergy(result.arg)

\* the scenario: wellness {80, 70}, engagement {75, 65}, one completed and
\* one abandoned initiative give 75, 70 and 341/6 = 56.83
C12_Witness ==
    /\ IsSynergyResult
    /\ result.arg = "d1"
    /\ result.value.employeeCount = 2
    /\ result.value.avgWellness = Int2Num(75)
    /\ result.value.avgEngagement = Int2Num(70)
    /\ CountStatus("d1", "completed") = 1
    /\ CountStatus("d1", "abandoned") = 1
    /\ result.value.synergyScore = Num(341, 6)

\* C21: the synergyGrade of every returned record is SYNERGIZED when its
\* synergyScore is above 80, ALIGNED when above 60 and at most 80, SILOED
\* otherwise
C21_SynergyGrade ==
    IsSynergyResult =>
        result.value.synergyGrade =
            (IF ~RatLeq(result.value.synergyScore, Int2Num(80)) THEN "SYNERGIZED"
             ELSE IF ~RatLeq(result.value.synergyScore, Int2Num(60)) THEN "ALIGNED"
             ELSE "SILOED")

\* a score of exactly 80 is graded ALIGNED
C21_Witness ==
    /\ IsSynergyResult
    /\ result.arg \in DOMAIN departments
    /\ result.value.synergyScore = Int2Num(80)
    /\ result.value.synergyGrade = "ALIGNED"

\* the wellnessScore and engagementLevel of every employee lie in [0, 100]
ScoresInRange ==
    \A k \in DOMAIN employees :
        \A x \in {employees[k].wellnessScore, employees[k].engagementLevel} :
            IsNull(x) \/ (RatLeq(Int2Num(0), x) /\ RatLeq(x, Int2Num(100)))

\* C29: with employee scores in [0, 100] the success ratio is a number in
\* [0, 1) and the synergyScore lies in [0, 100)
C29_SynergyBounded ==
    (IsSynergyResult /\ ScoresInRange) =>
        /\ ~IsNull(result.value.initiativeSuccessRate)
        /\ RatLeq(Int2Num(0), result.value.initiativeSuccessRate)
        /\ ~RatLeq(Int2Num(1), result.value.initiativeSuccessRate)
        /\ RatLeq(Int2Num(0), result.value.synergyScore)
        /\ ~RatLeq(Int2Num(100), result.value.synergyScore)

\* the largest score of the bounds: averages of 100 and completed
\* initiatives only
C29_Witness ==
    /\ IsSynergyResult
    /\ result.arg = "d1"
    /\ result.value.avgWellness = Int2Num(100)
    /\ result.value.avgEngagement = Int2Num(100)
    /\ CountStatus("d1", "completed") = Cardinality(DOMAIN initiatives)
    /\ CountStatus("d1", "completed") > 0
    /\ CountStatus("d1", "abandoned") = 0
    /\ ~RatLeq(result.value.synergyScore, Int2Num(80))

\* C13: avgWellness is 0 when no employee of the department has a
\* wellnessScore and avgEngagement is 0 when none has an engagementLevel,
\* in the returned fields and in the synergyScore
C13_ZeroAverages ==
    (IsSynergyResult /\ result.arg \in DOMAIN departments) =>
        /\ (MeanOf(result.arg, "wellnessScore") = Int2Num(0) =>
               result.value.avgWellness = Int2Num(0))
        /\ (MeanOf(result.arg, "engagementLevel") = Int2Num(0) =>
               result.value.avgEngagement = Int2Num(0))
        /\ result.value.synergyScore = ExpectedSynergy(result.arg)

\* C14: a score query for an identifier absent from the store returns no
\* score record
C14_NotFound ==
    /\ (IsGapResult /\ result.arg \notin DOMAIN initiatives) =>
          "gapScore" \notin DOMAIN result.value
    /\ (IsSynergyResult /\ result.arg \notin DOMAIN departments) =>
          "synergyScore" \notin DOMAIN result.value

-----------------------------------------------------------------------------
(* InitiativeService: createInitiative and linkCause.  Each call writes    *)
(* the graph store, awaits, and then writes the semantic mirror; `call` is *)
(* the call in flight between the two writes.  Either write may be         *)
(* rejected by its server, which makes the call throw.                     *)

Statuses == {"planned", "active", "completed", "abandoned"}

\* z.string().datetime(): the strings that are ISO datetimes
IsoDatetimes == {"2024-01-01T00:00:00Z"}

validInitiativeStatusOnly(initiative) == initiative.status \in Statuses

\* InitiativeSchema.parse(initiative) does not throw
validInitiative(initiative) ==
    initiative.startDate \in IsoDatetimes /\ initiative.status \in Statuses

\* the triples syncToVirtuoso inserts for an initiative
InitiativeTriples(key, initiative) ==
    [subject |-> Id("initiative", key),
     type |-> "pmt:Initiative",
     label |-> initiative.name,
     startDate |-> initiative.startDate,
     status |-> initiative.status]

\* the triple linkCause inserts: subject pmt:causes object, no strength
CauseTriple(initiativeId, outcomeId) ==
    [subject |-> Id("initiative", initiativeId),
     predicate |-> "pmt:causes",
     object |-> Id("outcome", outcomeId)]

Thrown(op, err, written) == [op |-> op, error |-> err, written |-> written]

Returned(op, written) == [op |-> op, error |-> "none", written |-> written]

\* lines 12-17: parse, then collection.save(validated)
createInitiative(initiative) ==
    LET n == Cardinality(DOMAIN initiatives)
        key == InitiativeKeys[n + 1]
    IN  /\ call.pc = "idle"
        /\ n < MaxCreated
        /\ n < Len(InitiativeKeys)
        /\ \/ /\ ~validInitiative(initiative)
              /\ result' = Thrown("createInitiative", "ZodError", {})
              /\ UNCHANGED <<store, call>>
           \/ /\ validInitiative(initiative)
              /\ result' = Thrown("createInitiative", "ArangoError", {})
              /\ UNCHANGED <<store, call>>
           \/ /\ validInitiative(initiative)
              /\ initiatives' = [k \in DOMAIN initiatives \cup {key} |->
                                   IF k \in DOMAIN initiatives THEN initiatives[k]
                                   ELSE initiative]
              /\ call' = [pc |-> "syncToVirtuoso", key |-> key,
                          initiative |-> initiative]
              /\ result' = NoResult
              /\ UNCHANGED <<outcomes, metrics, employees, departments, causes,
                             measures, influences, participates_in, belongs_to>>
        /\ UNCHANGED <<traversal, virtuoso>>

\* lines 21-23: await this.syncToVirtuoso(created); return created
syncToVirtuoso ==
    /\ call.pc = "syncToVirtuoso"
    /\ \/ /\ virtuoso' = virtuoso \cup {InitiativeTriples(call.key, call.initiative)}
          /\ result' = Returned("createInitiative", {Id("initiatives", call.key)})
       \/ /\ UNCHANGED virtuoso
          /\ result' = Thrown("createInitiative", "VirtuosoError",
                              {Id("initiatives", call.key)})
    /\ call' = NoCall
    /\ UNCHANGED <<store, traversal>>

linkCauseIgnoringSaveError(initiativeId, outcomeId, strength) ==
    LET link == Edge("causes", Id("initiatives", initiativeId),
                     Id("outcomes", outcomeId), strength)
    IN  /\ call.pc = "idle"
        /\ Cardinality(causes) < MaxLinks
        /\ link \notin causes
        /\ \/ UNCHANGED causes
           \/ causes' = causes \cup {link}
        /\ call' = [pc |-> "insertCause", link |-> link,
                    initiativeId |-> initiativeId, outcomeId |-> outcomeId]
        /\ result' = NoResult
        /\ UNCHANGED <<initiatives, outcomes, metrics, employees, departments,
                       measures, influences, participates_in, belongs_to,
                       traversal, virtuoso>>

\* lines 46-58: the link is built from the arguments and saved
linkCause(initiativeId, outcomeId, strength) ==
    LET link == Edge("causes", Id("initiatives", initiativeId),
                     Id("outcomes", outcomeId), strength)
    IN  /\ call.pc = "idle"
        /\ Cardinality(causes) < MaxLinks
        /\ link \notin causes
        /\ \/ /\ result' = Thrown("linkCause", "ArangoError", {})
              /\ UNCHANGED <<causes, call>>
           \/ /\ causes' = causes \cup {link}
              /\ call' = [pc |-> "insertCause", link |-> link,
                          initiativeId |-> initiativeId, outcomeId |-> outcomeId]
              /\ result' = NoResult
        /\ UNCHANGED <<initiatives, outcomes, metrics, employees, departments,
                       measures, influences, participates_in, belongs_to,
                       traversal, virtuoso>>

\* lines 61-67: await this.virtuoso.insert(...); return the link
insertCause ==
    /\ call.pc = "insertCause"
    /\ \/ /\ virtuoso' = virtuoso \cup {CauseTriple(call.initiativeId, call.outcomeId)}
          /\ result' = Returned("linkCause", {call.link})
       \/ /\ UNCHANGED virtuoso
          /\ result' = Thrown("linkCause", "VirtuosoError", {call.link})
    /\ call' = NoCall
    /\ UNCHANGED <<store, traversal>>

-----------------------------------------------------------------------------
(* Specification of the writes: an outcome saved beforehand, initiatives   *)
(* created and linked through InitiativeService, one call at a time        *)

InitiativeInput(name, startDate, status) ==
    [name |-> name, startDate |-> startDate, status |-> status,
     department |-> "Engineering"]

InitiativeInputs ==
    {InitiativeInput("Test Initiative", "2024-01-01T00:00:00Z", "active"),
     InitiativeInput("Test", "invalid-date", "active"),
     InitiativeInput("Test", "2024-01-01T00:00:00Z", "invalid-status"),
     InitiativeInput("Test", "invalid-date", "invalid-status")}

\* strength is any number of the request body
LinkStrengths == {Half, Num(3, 2), Num(-1, 2)}

InitWrite ==
    /\ initiatives = <<>>
    /\ outcomes = [k \in {"o1"} |-> OutcomeDoc("unintended")]
    /\ metrics = <<>>
    /\ employees = <<>>
    /\ departments = <<>>
    /\ causes = {}
    /\ measures = {}
    /\ influences = {}
    /\ participates_in = {}
    /\ belongs_to = {}
    /\ result = NoResult
    /\ traversal = Idle
    /\ virtuoso = {}
    /\ call = NoCall

createCall == \E initiative \in InitiativeInputs : createInitiative(initiative)

linkCall ==
    \E i \in {"i1", "i9"}, o \in {"o1", "o9"}, s \in LinkStrengths : linkCause(i, o, s)

NextWrite == createCall \/ syncToVirtuoso \/ linkCall \/ insertCause

\* a call that awaits its mirror write is resumed
SpecWrite ==
    InitWrite /\ [][NextWrite]_vars /\ WF_vars(syncToVirtuoso) /\ WF_vars(insertCause)

\* C15: every stored causes edge leads from an existing vertex to an
\* existing vertex: linkCause stores no edge whose initiative or outcome is
\* absent
C15_NoDanglingEdges ==
    \A e \in causes : Exists(e._from) /\ Exists(e._to)

\* C16: every stored causes edge has a strength in [0, 1]: linkCause
\* stores no edge of a strength outside the range
C16_StrengthInRange ==
    \A e \in causes :
        RatLeq(Int2Num(0), e.strength) /\ RatLeq(e.strength, Int2Num(1))

\* C17: when createInitiative or linkCause has returned an error, the graph
\* store holds no vertex and no edge the call created
C17_AllOrNothing ==
    /\ (result.op = "createInitiative" /\ result.error # "none") =>
          \A w \in result.written : ~Exists(w)
    /\ (result.op = "linkCause" /\ result.error # "none") =>
          \A w \in result.written : w \notin causes

MirrorHasInitiative(k) ==
    k \in DOMAIN initiatives /\ InitiativeTriples(k, initiatives[k]) \in virtuoso

MirrorHasCause(i, o) == CauseTriple(i, o) \in virtuoso

\* C18: every initiative stored by createInitiative and every causes edge
\* stored by linkCause is eventually in the mirror, also when the first
\* mirror write fails
C18_MirrorEventually ==
    /\ \A k \in {"i1", "i2", "i3"} :
          (k \in DOMAIN initiatives) ~> MirrorHasInitiative(k)
    /\ \A i \in {"i1", "i9"}, o \in {"o1", "o9"} :
          (\E e \in causes : e._from = Id("initiatives", i) /\ e._to = Id("outcomes", o))
              ~> MirrorHasCause(i, o)

\* every stored initiative and every initiative fact of the mirror carries
\* an ISO startDate and a status of the enumeration
StoredInitiativesValid ==
    /\ \A k \in DOMAIN initiatives :
          initiatives[k].startDate \in IsoDatetimes /\ initiatives[k].status \in Statuses
    /\ \A t \in virtuoso :
          "type" \in DOMAIN t => (t.startDate \in IsoDatetimes /\ t.status \in Statuses)

\* a step that ends createInitiative with a validation error changes
\* neither the graph store nor the mirror, and leaves no call in flight
RejectionWritesNothing ==
    (result'.op = "createInitiative" /\ result'.error = "ZodError") =>
        /\ UNCHANGED <<store, virtuoso>>
        /\ call' = NoCall
        /\ result'.written = {}

\* C23: createInitiative rejects input whose startDate is no ISO datetime
\* or whose status is outside the enumeration before any write: no such
\* input is ever stored or mirrored, and the rejecting call writes nothing
C23_RejectBeforeWrite == []StoredInitiativesValid /\ [][RejectionWritesNothing]_vars

\* an input was rejected after another one had been stored and mirrored
C23_Witness ==
    /\ result.op = "createInitiative"
    /\ result.error = "ZodError"
    /\ DOMAIN initiatives = {"i1"}
    /\ MirrorHasInitiative("i1")

\* the stored vertex or edge a fact of the mirror stands for
MirrorFactStored(t) ==
    IF "type" \in DOMAIN t
    THEN /\ t.subject.key \in DOMAIN initiatives
         /\ t = InitiativeTriples(t.subject.key, initiatives[t.subject.key])
    ELSE \E e \in causes :
            /\ e._from = Id("initiatives", t.subject.key)
            /\ e._to = Id("outcomes", t.object.key)

\* C28: the mirror is never ahead of the graph store: every initiative fact
\* and every causes fact of the mirror stands for a vertex or edge that is
\* already stored
C28_MirrorNotAhead == \A t \in virtuoso : MirrorFactStored(t)

\* the mirror holds an initiative fact and a causes fact
C28_Witness ==
    /\ \E t \in virtuoso : "type" \in DOMAIN t
    /\ \E t \in virtuoso : "predicate" \in DOMAIN t
    /\ call = NoCall

\* C27: every path returned by traceCausalPath is well formed: its first
\* vertex is `from`, its last vertex is `to`, it has between 1 and maxDepth
\* edges, and its reported length is its vertex count, its edge count plus one
C27_WellFormedPaths ==
    result.op = "traceCausalPath" =>
        \A p \in result.value :
            /\ p.from = result.from
            /\ p.to = result.to
            /\ p.path[1].node = result.from
            /\ p.path[Len(p.path)].node = result.to
            /\ Len(p.edges) \in 1..result.maxDepth
            /\ p.length = Len(p.path)
            /\ p.length = Len(p.edges) + 1

\* a query with from = to answered by a cycle of maxDepth edges
C27_Witness ==
    /\ result.op = "traceCausalPath"
    /\ result.from = result.to
    /\ result.maxDepth > 1
    /\ \E p \in result.value : Len(p.edges) = result.maxDepth

-----------------------------------------------------------------------------
(* Specification of the consequences of an initiative: one initiative,     *)
(* four outcomes and a metric; causes edges between them are saved one at  *)
(* a time and findUnintendedConsequences is asked for a stored and for an  *)
(* unknown initiative                                                      *)

InitConsequences ==
    /\ initiatives = [k \in {"i1"} |-> InitiativeDoc]
    /\ outcomes \in {[o1 |-> OutcomeDoc(t1), o2 |-> OutcomeDoc(t2),
                      o3 |-> OutcomeDoc("unintended"), o4 |-> OutcomeDoc("unintended")] :
                        t1 \in {"intended", "unintended"},
                        t2 \in {"emergent", "unintended"}}
    /\ metrics = [k \in {"m1"} |-> MetricDoc(Int2Num(50), Int2Num(90))]
    /\ employees = <<>>
    /\ departments = <<>>
    /\ causes = {}
    /\ measures = {}
    /\ influences = {}
    /\ participates_in = {}
    /\ belongs_to = {}
    /\ result = NoResult
    /\ traversal = Idle
    /\ virtuoso = {}
    /\ call = NoCall

saveCausesConsequences ==
    \E f \in {I1, O1, O2, O3}, t \in {O1, O2, O3, O4, M1} :
        /\ Cardinality(causes) < MaxConsequenceCauses
        /\ Edge("causes", f, t, Half) \notin causes
        /\ causes' = causes \cup {Edge("causes", f, t, Half)}
        /\ result' = SaveResult(Edge("causes", f, t, Half))
        /\ UNCHANGED <<initiatives, outcomes, metrics, employees, departments,
                       measures, influences, participates_in, belongs_to,
                       traversal, virtuoso, call>>

\* GET /api/initiatives/:id/unintended
unintendedQuery == \E i \in {"i1", "i9"} : findUnintendedConsequences(i)

NextConsequences == saveCausesConsequences \/ unintendedQuery

SpecConsequences == InitConsequences /\ [][NextConsequences]_vars

\* the vertices exactly k outbound causes edges away from the vertex v
RECURSIVE CausesHop(_, _)
CausesHop(v, k) == IF k = 0 THEN {v} ELSE Successors(CausesHop(v, k - 1), causes)

\* the unintended outcomes 1 to 3 outbound causes edges away from an initiative
UnintendedWithinThreeHops(i) ==
    {v \in CausesHop(i, 1) \cup CausesHop(i, 2) \cup CausesHop(i, 3) :
        IsOutcomeOfType(v, {"unintended"})}

\* C25: findUnintendedConsequences returns exactly the distinct outcomes of
\* type 'unintended' 1 to 3 outbound causes edges away from the initiative,
\* and no intended or emergent outcome and no other vertex
C25_UnintendedExact ==
    result.op = "findUnintendedConsequences" =>
        /\ NoDuplicates(result.value)
        /\ {result.value[n] : n \in 1..Len(result.value)}
              = UnintendedWithinThreeHops(Id("initiatives", result.arg))

\* an unintended outcome three hops away is returned while the one four
\* hops away, an emergent outcome and a metric on the way are not
C25_Witness ==
    /\ result.op = "findUnintendedConsequences"
    /\ result.arg = "i1"
    /\ O3 \in CausesHop(I1, 3) /\ O3 \notin CausesHop(I1, 1) \cup CausesHop(I1, 2)
    /\ O4 \in CausesHop(I1, 4)
    /\ outcomes["o2"].type = "emergent"
    /\ O2 \in CausesHop(I1, 2)
    /\ result.value = <<O3>>

-----------------------------------------------------------------------------
(* InitiativeService.getInitiativeWithOutcomes *)

\* a vertex, or null where the traversal met an edge whose target document
\* does not exist
NullVertex == [coll |-> "null", key |-> "null"]

VertexOf(id) == IF Exists(id) THEN id ELSE NullVertex

\* a.severity: null when the vertex or the field is missing
SeverityOf(id) ==
    IF Exists(id) /\ "severity" \in DOMAIN Collection(id.coll)[id.key]
    THEN Collection(id.coll)[id.key].severity
    ELSE Null

\* FOR v, e IN 1..1 OUTBOUND initiative causes RETURN {outcome: v, link: e}
initiativeOutcomes(initiative) == Traverse(initiative, causes, "OUTBOUND", 1, 1)

\* FOR o IN outcomes FILTER o.outcome.type == 'intended'
intendedOfOutcomes(initiative) ==
    {p \in initiativeOutcomes(initiative) : TypeOf(EndOf(initiative, p)) = "intended"}

\* FOR o IN outcomes FILTER o.outcome.type != 'intended'
actualOfOutcomes(initiative) ==
    {p \in initiativeOutcomes(initiative) : TypeOf(EndOf(initiative, p)) # "intended"}

\* LENGTH(actual) > 0 ? AVG(FOR a IN actual RETURN a.severity) : 0
gapOfActual(initiative, rows) ==
    LET s == SetToSeq(rows)
    IN  IF Len(s) > 0
        THEN AqlAvg([n \in 1..Len(s) |-> SeverityOf(EndOf(initiative, s[n]))])
        ELSE Int2Num(0)

InitiativeWithOutcomes(initiativeId) ==
    LET initiative == Id("initiatives", initiativeId)
        ins == SetToSeq(intendedOfOutcomes(initiative))
        acts == SetToSeq(actualOfOutcomes(initiative))
    IN  [initiative |-> VertexOf(initiative),
         intended |-> [n \in 1..Len(ins) |-> VertexOf(EndOf(initiative, ins[n]))],
         actual |-> [n \in 1..Len(acts) |-> VertexOf(EndOf(initiative, acts[n]))],
         gap |-> gapOfActual(initiative, actualOfOutcomes(initiative))]

getInitiativeWithOutcomes(initiativeId) ==
    /\ result' = [op |-> "getInitiativeWithOutcomes", arg |-> initiativeId,
                  value |-> InitiativeWithOutcomes(initiativeId)]
    /\ UNCHANGED <<store, traversal, virtuoso, call>>

-----------------------------------------------------------------------------
(* Specification of the analysis of an initiative: one initiative and      *)
(* three outcomes with their severities; outcomes are linked through       *)
(* linkCause and the initiative is read by getInitiativeWithOutcomes        *)

OutcomeWithSeverity(t, sev) == [type |-> t, severity |-> Int2Num(sev)]

InitAnalysis ==
    /\ initiatives = [k \in {"i1"} |-> InitiativeDoc]
    /\ outcomes = [o1 |-> OutcomeWithSeverity("intended", 5),
                   o2 |-> OutcomeWithSeverity("unintended", 7),
                   o3 |-> OutcomeWithSeverity("emergent", 2)]
    /\ metrics = <<>>
    /\ employees = <<>>
    /\ departments = <<>>
    /\ causes = {}
    /\ measures = {}
    /\ influences = {}
    /\ participates_in = {}
    /\ belongs_to = {}
    /\ result = NoResult
    /\ traversal = Idle
    /\ virtuoso = {}
    /\ call = NoCall

\* POST /api/initiatives/:id/outcomes
linkCallAnalysis ==
    \E o \in {"o1", "o2", "o3", "o9"}, s \in {Half, Int2Num(1)} : linkCause("i1", o, s)

\* GET /api/initiatives/:id/analysis
analysisQuery == \E i \in {"i1", "i9"} : getInitiativeWithOutcomes(i)

NextAnalysis == linkCallAnalysis \/ insertCause \/ analysisQuery

SpecAnalysis == InitAnalysis /\ [][NextAnalysis]_vars

ElementsOf(s) == {s[n] : n \in 1..Len(s)}

\* the mean of the severities of a list of vertices that all have one
MeanSeverity(s) ==
    LET total == RatSum([n \in 1..Len(s) |-> SeverityOf(s[n])])
    IN  Num(total.n, total.d * Len(s))

IsAnalysisResult ==
    result.op = "getInitiativeWithOutcomes" /\ Exists(Id("initiatives", result.arg))

\* C26: `intended` holds exactly the hop-1 outbound causes neighbours of type
\* 'intended', `actual` exactly all the other neighbours, and `gap` is the
\* mean severity of `actual`, 0 when `actual` is empty
C26_PartitionAndGap ==
    IsAnalysisResult =>
        LET neighbours == Successors({Id("initiatives", result.arg)}, causes)
            ins == {v \in neighbours : IsOutcomeOfType(v, {"intended"})}
        IN  /\ ElementsOf(result.value.intended) = ins
            /\ ElementsOf(result.value.actual) = neighbours \ ins
            /\ ~IsNull(result.value.gap)
            /\ result.value.gap =
                  (IF result.value.actual = <<>> THEN Int2Num(0)
                   ELSE MeanSeverity(result.value.actual))

\* the same statement over the stores whose causes edges all end in a
\* stored vertex
PartitionAndGapOnStoredNeighbours ==
    (\A e \in causes : Exists(e._to)) => C26_PartitionAndGap

-----------------------------------------------------------------------------
(* Specification of the gap over the graph's edge definitions: one         *)
(* initiative, two outcomes and a metric that misses its target; causes    *)
(* and measures edges, inside and outside the edge definitions, are saved  *)
(* one at a time                                                           *)

ConformingMetricDocs ==
    {MetricDoc(Int2Num(50), Int2Num(90)), MetricDoc(Int2Num(30), Int2Num(-10)),
     MetricDoc(Int2Num(95), Null)}

InitConforming ==
    /\ initiatives = [k \in {"i1"} |-> InitiativeDoc]
    /\ outcomes \in {[o1 |-> OutcomeDoc(t1), o2 |-> OutcomeDoc(t2)] :
                        t1 \in {"intended", "unintended"},
                        t2 \in {"unintended", "emergent"}}
    /\ metrics \in {[k \in {"m1"} |-> m] : m \in ConformingMetricDocs}
    /\ employees = <<>>
    /\ departments = <<>>
    /\ causes = {}
    /\ measures = {}
    /\ influences = {}
    /\ participates_in = {}
    /\ belongs_to = {}
    /\ result = NoResult
    /\ traversal = Idle
    /\ virtuoso = {}
    /\ call = NoCall

saveCausesConforming ==
    \E f \in {I1, M1, O1}, t \in {O1, O2, M1} :
        /\ Cardinality(causes \cup measures) < MaxConformingEdges
        /\ Edge("causes", f, t, Half) \notin causes
        /\ causes' = causes \cup {Edge("causes", f, t, Half)}
        /\ result' = SaveResult(Edge("causes", f, t, Half))
        /\ UNCHANGED <<initiatives, outcomes, metrics, employees, departments,
                       measures, influences, participates_in, belongs_to,
                       traversal, virtuoso, call>>

saveMeasuresConforming ==
    \E e \in {Edge("measures", I1, M1, Half), Edge("measures", M1, O1, Half),
               Edge("measures", M1, O2, Half)} :
        /\ Cardinality(causes \cup measures) < MaxConformingEdges
        /\ e \notin measures
        /\ measures' = measures \cup {e}
        /\ result' = SaveResult(e)
        /\ UNCHANGED <<initiatives, outcomes, metrics, employees, departments,
                       causes, influences, participates_in, belongs_to,
                       traversal, virtuoso, call>>

NextConforming ==
    \/ saveCausesConforming
    \/ saveMeasuresConforming
    \/ calculateIntentionRealityGap("i1")

SpecConforming == InitConforming /\ [][NextConforming]_vars

\* the edge leads from and to the collections its edge definition names
InEdgeDefinition(e) ==
    /\ e._from.coll \in EdgeDefinitions[e.coll].from
    /\ e._to.coll \in EdgeDefinitions[e.coll].to

GraphInEdgeDefinitions == \A e \in causes \cup measures : InEdgeDefinition(e)

-----------------------------------------------------------------------------
(* Specification of the queries on sparse data: an initiative, two         *)
(* outcomes and at most one metric; causes and measures edges are saved    *)
(* one at a time and the four list queries are asked in every store        *)

QueryMetricDocs ==
    {<<>>,
     [k \in {"m1"} |-> MetricDoc(Int2Num(50), Int2Num(90))],
     [k \in {"m1"} |-> MetricDoc(Int2Num(95), Null)],
     [k \in {"m1"} |-> MetricDoc(Int2Num(5), Int2Num(90))]}

InitQueries ==
    /\ initiatives = [k \in {"i1"} |-> InitiativeDoc]
    /\ outcomes \in {[o1 |-> OutcomeDoc("intended"), o2 |-> OutcomeDoc(t)] :
                        t \in {"unintended", "emergent"}}
    /\ metrics \in QueryMetricDocs
    /\ employees = <<>>
    /\ departments = <<>>
    /\ causes = {}
    /\ measures = {}
    /\ influences = {}
    /\ participates_in = {}
    /\ belongs_to = {}
    /\ result = NoResult
    /\ traversal = Idle
    /\ virtuoso = {}
    /\ call = NoCall

saveMeasuresQueries ==
    \E t \in {O1, O2} :
        /\ "m1" \in DOMAIN metrics
        /\ Edge("measures", M1, t, Half) \notin measures
        /\ measures' = measures \cup {Edge("measures", M1, t, Half)}
        /\ result' = SaveResult(Edge("measures", M1, t, Half))
        /\ UNCHANGED <<initiatives, outcomes, metrics, employees, departments,
                       causes, influences, participates_in, belongs_to,
                       traversal, virtuoso, call>>

NextQueries ==
    \/ saveCausesGap
    \/ saveMeasuresQueries
    \/ tracePath
    \/ gameableAudit
    \/ detectMetricTheater
    \/ unintendedQuery

SpecQueries == InitQueries /\ [][NextQueries]_vars

\* the vertices 1 to k outbound causes edges away from the vertex v
RECURSIVE CausesWithin(_, _)
CausesWithin(v, k) ==
    IF k = 0 THEN {} ELSE CausesWithin(v, k - 1) \cup CausesHop(v, k)

\* C22: a query that finds no matching data returns an empty list:
\* traceCausalPath when `to` is not 1 to maxDepth outbound causes edges away
\* from `from`, findGameableMetrics when no metric exceeds the threshold,
\* detectMetricTheater when every metric has an initiative within two hops,
\* findUnintendedConsequences when no unintended outcome is within three hops
C22_EmptyNotError ==
    /\ (result.op = "traceCausalPath"
          /\ result.to \notin CausesWithin(result.from, result.maxDepth))
            => result.value = {}
    /\ (IsGameableResult /\ ExpectedGameable(result.threshold) = {})
            => result.value = <<>>
    /\ (IsTheaterResult
          /\ \A k \in DOMAIN metrics : InitiativeWithinTwoHops(Id("metrics", k)))
            => result.value = <<>>
    /\ (result.op = "findUnintendedConsequences"
          /\ UnintendedWithinThreeHops(Id("initiatives", result.arg)) = {})
            => result.value = <<>>

\* the outcome is two causes edges away and the query allows one
C22_Witness ==
    /\ result.op = "traceCausalPath"
    /\ result.from = I1 /\ result.to = O2 /\ result.maxDepth = 1
    /\ O2 \in CausesHop(I1, 2)
    /\ O2 \notin CausesHop(I1, 1)
    /\ result.value = {}

====
